---- MODULE Spec2Model ----
(***************************************************************************)
(* CSV validation and conversion engine of data-pipeline-service.          *)
(*                                                                         *)
(* The model follows src/src/utils/csvValidator.ts (validateCsvFile,       *)
(* validateCsvContent, validateDataType) and src/src/utils/csvToJson.ts    *)
(* (csvToJson, csvStringToJson).  The csv-parse tokenizer is the           *)
(* environment: it delivers a 'header' event, then 'data' events, then     *)
(* 'end' or 'error'.  Each event handler of the validator is one action.   *)
(***************************************************************************)
EXTENDS Integers, Sequences, FiniteSets, TLC

(***************************************************************************)
(* Optional values of the source (undefined / present).                    *)
(***************************************************************************)
None == << >>
Some(x) == << x >>
IsSome(o) == Len(o) = 1
Get(o) == o[1]

(***************************************************************************)
(* Bounds of the model.                                                    *)
(***************************************************************************)
\* The largest number of data cells (rows times header fields) of a content.
MaxCells == 3

\* The largest number of times another process rewrites the file during a call.
MaxRewrites == 1

(***************************************************************************)
(* Input universes.                                                        *)
(***************************************************************************)
\* Field values as the parser delivers them with trim: true.  A
\* whitespace-only value reaches the handler from a quoted field.
Values == {"", " ", "2020", "TRUE"}

\* Header rows of the contents; "" is an empty-named column.
HeaderRows ==
    { <<"age">>, <<"name", "age">>, <<"age", "">>, <<"name", "age", "city">> }

Types == {"string", "number", "boolean", "date"}

RequiredColumnsChoices ==
    { None, Some(<<"age">>), Some(<<"zip", "age", "name">>) }

\* columnTypes as a function from column names to type names; the empty
\* function stands for an unset columnTypes (options.columnTypes?.[column]
\* is falsy in both cases).
ColumnTypesChoices ==
    { << >> } \cup { [c \in {"age"} |-> t] : t \in Types }
              \cup { [c \in {"name", "age"} |-> IF c = "name" THEN "string" ELSE "number"] }

MaxRowLengthChoices == { None, Some(0), Some(1) }

AllowEmptyValuesChoices == { None, Some(FALSE), Some(TRUE) }

\* CsvValidationOptions
CsvValidationOptions ==
    [ requiredColumns  : RequiredColumnsChoices,
      columnTypes      : ColumnTypesChoices,
      maxRowLength     : MaxRowLengthChoices,
      allowEmptyValues : AllowEmptyValuesChoices ]

OptionalBoolean == { None, Some(FALSE), Some(TRUE) }

\* CsvToJsonOptions, without its validation member (held in options).
CsvToJsonOptions ==
    [ delimiter       : { None, Some(";") },
      skipEmptyLines  : OptionalBoolean,
      trimValues      : OptionalBoolean,
      headers         : OptionalBoolean ]

\* A CsvToJsonOptions with no member set.
DefaultCsvToJsonOptions ==
    [ delimiter |-> None, skipEmptyLines |-> None, trimValues |-> None,
      headers |-> None ]

\* Contents as sequences of lines, a line as a sequence of tokens: words,
\* the separators "," and ";", and the blank " ".  An empty line is << >>.
Contents ==
    { << >>,
      << <<"age">>, <<"2020">> >>,
      << <<"age">>, << >>, <<"2020">> >>,
      << <<"name", ",", "age">>, <<"TRUE", ",", "2020">> >>,
      << <<"name", ",", "age">>, <<"TRUE", ",", " ", "2020">>, <<"TRUE", ",", "2020">> >>,
      << <<"name", ",", "age">>, << >>, <<"TRUE", ",", "2020">> >>,
      << <<"name", ",", "age">>, <<"TRUE", ",", "2020">>, <<"TRUE">> >>,
      << <<"name", ";", "age">>, <<"TRUE", ";", "TRUE">> >>,
      << <<"name", ";", "age">>, <<"TRUE", ";", ",", "2020">> >> }

\* The messages a csv-parse error carries.
ParseErrorMessages == { "Invalid Record Length" }

(***************************************************************************)
(* JavaScript primitives on the values of the universe.                    *)
(***************************************************************************)
\* String.prototype.trim
Trim(v) == IF v = " " THEN "" ELSE v

\* String.prototype.toLowerCase
ToLowerCase(v) == IF v = "TRUE" THEN "true" ELSE v

\* isNaN(Number(v)): Number("") and Number(" ") are 0, Number("2020") is
\* 2020, Number("TRUE") is NaN.
NumberIsNaN(v) == v \notin {"", " ", "2020"}

\* isNaN(Date.parse(v)): only "2020" is a date string.
DateParseIsNaN(v) == v # "2020"

\* Truthiness of a string.
Truthy(s) == s # ""

(***************************************************************************)
(* validateDataType                                                        *)
(***************************************************************************)
validateDataType(value, type) ==
    CASE type = "number"  -> ~NumberIsNaN(value) /\ Trim(value) # ""
      [] type = "boolean" -> ToLowerCase(value) \in {"true", "false", "0", "1"}
      [] type = "date"    -> ~DateParseIsNaN(value)
      [] type = "string"  -> TRUE
      [] OTHER            -> FALSE

(***************************************************************************)
(* Sequence helpers (Array.prototype.filter / includes / join).            *)
(***************************************************************************)
Includes(s, x) == \E i \in 1..Len(s) : s[i] = x

RECURSIVE Join(_, _)
Join(s, sep) ==
    IF Len(s) = 0 THEN ""
    ELSE IF Len(s) = 1 THEN s[1]
    ELSE s[1] \o sep \o Join(Tail(s), sep)

\* headerRow.filter(h => h !== '')
FilterNonEmpty(s) == SelectSeq(s, LAMBDA h : h # "")

(***************************************************************************)
(* State.                                                                  *)
(***************************************************************************)
VARIABLES
    entry,       \* the exported function that was called
    options,     \* the CsvValidationOptions of the call
    pc,          \* position of the call: "reading", "parsing", "settled"
    parser,      \* the csv-parse stream: "idle", "written", "header", "end", "error"
    headerRow,   \* the header row the parser delivered, if any
    delivered,   \* the row objects the parser delivered, in order
    result,      \* the ValidationResult accumulator of validateCsvContent
    headers,     \* closure variable headers of validateCsvContent
    rowIndex,    \* closure variable rowIndex of validateCsvContent
    validation,  \* the promise the validator entry point returned
    cpc,         \* position of the converter: "none", "validating", "reading",
                 \* "parsing", "settled"
    parseStarted,\* whether the converter called parse(...)
    conversion,  \* the promise csvToJson / csvStringToJson returned
    content,     \* the content validateCsvContent is given, when the call fixes it
    convOptions, \* the CsvToJsonOptions of the call (delimiter, headers, ...)
    file,        \* the content of the file at filePath, when the call fixes it
    rewrites,    \* how many times another process rewrote the file
    fileContent, \* csvToJson's own fileContent, once read
    calls        \* the closures of two concurrent validateCsvContent calls

converterVars == << cpc, parseStarted, conversion >>

tokVars == << content, convOptions >>

fileVars == << file, rewrites, fileContent >>

callVars == << calls >>

\* The variables only the specifications further below move.
extVars == << tokVars, fileVars, callVars >>

vars ==
    << entry, options, pc, parser, headerRow, delivered, result, headers,
       rowIndex, validation, cpc, parseStarted, conversion, content,
       convOptions, file, rewrites, fileContent, calls >>

\* ValidationError; column is None for an error without a column.
ValidationError(row, column, message) ==
    [ row |-> row, column |-> column, message |-> message ]

\* The ValidationResult validateCsvContent starts from.
NewValidationResult ==
    [ isValid |-> TRUE, errors |-> << >>, columnCount |-> 0, rowCount |-> 0 ]

Pending == [ state |-> "pending" ]
Resolved(v) == [ state |-> "resolved", value |-> v ]
Rejected(m) == [ state |-> "rejected", message |-> m ]

(***************************************************************************)
(* The row object csv-parse builds with columns: true: one entry per       *)
(* header field, in header order (Object.entries order).                   *)
(***************************************************************************)
MakeRecord(header, fields) ==
    [ i \in 1..Len(header) |-> [ column |-> header[i], value |-> fields[i] ] ]

\* Object.values(row)
ObjectValues(row) == [ i \in 1..Len(row) |-> row[i].value ]

\* The data rows a content with this header can hold within the bound.
RowsFor(header) == [ 1..Len(header) -> Values ]

(***************************************************************************)
(* 'header' handler: the required-columns check.                           *)
(***************************************************************************)
\* options.requiredColumns.filter(col => !headers.includes(col))
MissingColumns(required, hdrs) ==
    SelectSeq(required, LAMBDA col : ~Includes(hdrs, col))

\* HeaderErrors recording one error per missing column.
HeaderErrorsPerColumn(opts, hdrs) ==
    IF IsSome(opts.requiredColumns)
    THEN LET missingColumns == MissingColumns(Get(opts.requiredColumns), hdrs)
         IN  [ i \in 1..Len(missingColumns) |->
                 ValidationError(0, None,
                     "Missing required columns: " \o missingColumns[i]) ]
    ELSE << >>

HeaderErrors(opts, hdrs) ==
    IF IsSome(opts.requiredColumns)
    THEN LET missingColumns == MissingColumns(Get(opts.requiredColumns), hdrs)
         IN  IF Len(missingColumns) > 0
             THEN << ValidationError(0, None,
                        "Missing required columns: " \o Join(missingColumns, ", ")) >>
             ELSE << >>
    ELSE << >>

(***************************************************************************)
(* 'data' handler: the checks of one row.                                  *)
(***************************************************************************)
\* Object.values(row).filter(v => v !== '').length
RowLength(row) == Len(SelectSeq(ObjectValues(row), LAMBDA v : v # ""))

ColumnCountErrors(r, rowLength, columnCount) ==
    IF rowLength # columnCount
    THEN << ValidationError(r, None,
               "Inconsistent column count: expected " \o ToString(columnCount)
               \o ", got " \o ToString(rowLength)) >>
    ELSE << >>

\* options.maxRowLength && rowLength > options.maxRowLength
MaxRowLengthExceeded(opts, rowLength) ==
    /\ IsSome(opts.maxRowLength)
    /\ Get(opts.maxRowLength) # 0
    /\ rowLength > Get(opts.maxRowLength)

MaxRowLengthErrors(opts, r, rowLength) ==
    IF MaxRowLengthExceeded(opts, rowLength)
    THEN << ValidationError(r, None,
               "Row exceeds maximum length of " \o ToString(Get(opts.maxRowLength))) >>
    ELSE << >>

\* !options.allowEmptyValues
EmptyValuesRejected(opts) ==
    ~(IsSome(opts.allowEmptyValues) /\ Get(opts.allowEmptyValues))

\* EmptyValueErrors comparing the untrimmed value.
EmptyValueErrorsUntrimmed(opts, r, column, value) ==
    IF ~(IsSome(opts.allowEmptyValues) /\ Get(opts.allowEmptyValues)) /\ value = ""
    THEN << ValidationError(r, Some(column),
               "Empty value not allowed in column '" \o column \o "'") >>
    ELSE << >>

\* !options.allowEmptyValues && !value.trim()
EmptyValueErrors(opts, r, column, value) ==
    IF EmptyValuesRejected(opts) /\ ~Truthy(Trim(value))
    THEN << ValidationError(r, Some(column),
               "Empty value not allowed in column '" \o column \o "'") >>
    ELSE << >>

\* options.columnTypes?.[column]
HasColumnType(opts, column) ==
    /\ column \in DOMAIN opts.columnTypes
    /\ Truthy(opts.columnTypes[column])

\* DataTypeErrors with the negation of the predicate dropped.
DataTypeErrorsInverted(opts, r, column, value) ==
    IF column \in DOMAIN opts.columnTypes /\ opts.columnTypes[column] # ""
    THEN LET type == opts.columnTypes[column]
         IN  IF validateDataType(value, type)
             THEN << ValidationError(r, Some(column),
                        "Invalid " \o type \o " value '" \o value
                        \o "' in column '" \o column \o "'") >>
             ELSE << >>
    ELSE << >>

DataTypeErrors(opts, r, column, value) ==
    IF HasColumnType(opts, column)
    THEN LET type == opts.columnTypes[column]
         IN  IF ~validateDataType(value, type)
             THEN << ValidationError(r, Some(column),
                        "Invalid " \o type \o " value '" \o value
                        \o "' in column '" \o column \o "'") >>
             ELSE << >>
    ELSE << >>

\* Object.entries(row).forEach(([column, value]) => { ... })
RECURSIVE FieldErrors(_, _, _)
FieldErrors(opts, r, entries) ==
    IF Len(entries) = 0 THEN << >>
    ELSE EmptyValueErrors(opts, r, entries[1].column, entries[1].value)
         \o DataTypeErrors(opts, r, entries[1].column, entries[1].value)
         \o FieldErrors(opts, r, Tail(entries))

RowErrors(opts, r, row, columnCount) ==
    ColumnCountErrors(r, RowLength(row), columnCount)
    \o MaxRowLengthErrors(opts, r, RowLength(row))
    \o FieldErrors(opts, r, row)

(***************************************************************************)
(* Entry points.                                                           *)
(***************************************************************************)
ValidatorEntries == { "validateCsvContent", "validateCsvFile" }

ConverterEntries == { "csvStringToJson", "csvToJson" }

\* The calls whose validation goes through validateCsvFile.
UsesFile(e) == e \in { "validateCsvFile", "csvToJson" }

\* The causes fs.readFile fails with.
ReadErrorMessages == { "ENOENT" }

\* The state right after the call: validateCsvContent has built its parser
\* and written the content (parser.write, parser.end); validateCsvFile
\* awaits readFile.
InitValidation ==
    /\ options \in CsvValidationOptions
    /\ pc = IF UsesFile(entry) THEN "reading" ELSE "parsing"
    /\ parser = IF UsesFile(entry) THEN "idle" ELSE "written"
    /\ headerRow = None
    /\ delivered = << >>
    /\ result = NewValidationResult
    /\ headers = << >>
    /\ rowIndex = 0
    /\ validation = Pending
    /\ parseStarted = FALSE
    /\ conversion = Pending

\* No file content is fixed.
InitNoFile ==
    /\ file = None
    /\ rewrites = 0
    /\ fileContent = None
    /\ calls = << >>

\* The content is left open (the parser's events reveal it) and the
\* converter's own options are left unset.
InitOpen ==
    /\ content = None
    /\ convOptions = DefaultCsvToJsonOptions
    /\ InitNoFile

\* A direct call of the validator.
Init ==
    /\ entry \in ValidatorEntries
    /\ cpc = "none"
    /\ InitValidation
    /\ InitOpen

\* A call of the converter with options.validation set: it awaits the
\* validator first.
InitConv ==
    /\ entry \in ConverterEntries
    /\ cpc = "validating"
    /\ InitValidation
    /\ InitOpen

(***************************************************************************)
(* validateCsvFile: readFile settles.                                      *)
(***************************************************************************)
\* readFile resolves: return validateCsvContent(fileContent, options)
ReadFileOk ==
    /\ pc = "reading"
    /\ pc' = "parsing"
    /\ parser' = "written"
    /\ result' = NewValidationResult
    /\ headers' = << >>
    /\ rowIndex' = 0
    /\ UNCHANGED << entry, options, headerRow, delivered, validation >>
    /\ UNCHANGED converterVars
    /\ UNCHANGED extVars

\* ReadFileFail swallowing the failure and resolving with an empty result.
ReadFileFailSwallowed ==
    /\ pc = "reading"
    /\ validation' = Resolved(NewValidationResult)
    /\ pc' = "settled"
    /\ UNCHANGED << entry, options, parser, headerRow, delivered, result,
                    headers, rowIndex >>
    /\ UNCHANGED converterVars
    /\ UNCHANGED extVars

\* readFile rejects: the catch block wraps the cause.
ReadFileFail ==
    /\ pc = "reading"
    /\ \E cause \in ReadErrorMessages :
          validation' = Rejected("Failed to read CSV file: " \o cause)
    /\ pc' = "settled"
    /\ UNCHANGED << entry, options, parser, headerRow, delivered, result,
                    headers, rowIndex >>
    /\ UNCHANGED converterVars
    /\ UNCHANGED extVars

(***************************************************************************)
(* validateCsvContent: the parser's event handlers.                        *)
(***************************************************************************)
\* parser.on('header', ...)
OnHeader ==
    /\ pc = "parsing"
    /\ parser = "written"
    /\ \E h \in HeaderRows :
          /\ headerRow' = Some(h)
          /\ headers' = FilterNonEmpty(h)
          /\ result' = [ result EXCEPT
                           !.columnCount = Len(FilterNonEmpty(h)),
                           !.errors = @ \o HeaderErrors(options, FilterNonEmpty(h)) ]
    /\ parser' = "header"
    /\ UNCHANGED << entry, options, pc, delivered, rowIndex, validation >>
    /\ UNCHANGED converterVars
    /\ UNCHANGED extVars

\* parser.on('data', ...)
OnData ==
    /\ pc = "parsing"
    /\ parser = "header"
    /\ (Len(delivered) + 1) * Len(Get(headerRow)) <= MaxCells
    /\ \E fields \in RowsFor(Get(headerRow)) :
          LET row == MakeRecord(Get(headerRow), fields)
          IN  /\ delivered' = Append(delivered, row)
              /\ rowIndex' = rowIndex + 1
              /\ result' = [ result EXCEPT
                               !.errors = @ \o RowErrors(options, rowIndex + 1, row,
                                                         result.columnCount) ]
    /\ UNCHANGED << entry, options, pc, parser, headerRow, headers, validation >>
    /\ UNCHANGED converterVars
    /\ UNCHANGED extVars

\* OnEnd without the recomputation of isValid.
OnEndKeepsIsValid ==
    /\ pc = "parsing"
    /\ parser \in { "written", "header" }
    /\ LET final == [ result EXCEPT !.rowCount = rowIndex ]
       IN  /\ result' = final
           /\ validation' = Resolved(final)
    /\ parser' = "end"
    /\ pc' = "settled"
    /\ UNCHANGED << entry, options, headerRow, delivered, headers, rowIndex >>
    /\ UNCHANGED converterVars
    /\ UNCHANGED extVars

\* parser.on('end', ...)
OnEnd ==
    /\ pc = "parsing"
    /\ parser \in { "written", "header" }
    /\ LET final == [ result EXCEPT
                        !.rowCount = rowIndex,
                        !.isValid = (Len(result.errors) = 0) ]
       IN  /\ result' = final
           /\ validation' = Resolved(final)
    /\ parser' = "end"
    /\ pc' = "settled"
    /\ UNCHANGED << entry, options, headerRow, delivered, headers, rowIndex >>
    /\ UNCHANGED converterVars
    /\ UNCHANGED extVars

\* OnError rejecting the promise instead of resolving it.
OnErrorRejects ==
    /\ pc = "parsing"
    /\ parser \in { "written", "header" }
    /\ \E m \in ParseErrorMessages :
          /\ result' = [ result EXCEPT
                           !.errors = Append(@, ValidationError(rowIndex, None,
                                                   "Parsing error: " \o m)),
                           !.isValid = FALSE ]
          /\ validation' = Rejected("CSV parsing error: " \o m)
    /\ parser' = "error"
    /\ pc' = "settled"
    /\ UNCHANGED << entry, options, headerRow, delivered, headers, rowIndex >>
    /\ UNCHANGED converterVars
    /\ UNCHANGED extVars

\* OnError recording the parse error as a row-0 error.
OnErrorRowZero ==
    /\ pc = "parsing"
    /\ parser \in { "written", "header" }
    /\ \E m \in ParseErrorMessages :
          LET final == [ result EXCEPT
                           !.errors = Append(@, ValidationError(0, None,
                                                   "Parsing error: " \o m)),
                           !.isValid = FALSE ]
          IN  /\ result' = final
              /\ validation' = Resolved(final)
    /\ parser' = "error"
    /\ pc' = "settled"
    /\ UNCHANGED << entry, options, headerRow, delivered, headers, rowIndex >>
    /\ UNCHANGED converterVars
    /\ UNCHANGED extVars

\* parser.on('error', ...)
OnError ==
    /\ pc = "parsing"
    /\ parser \in { "written", "header" }
    /\ \E m \in ParseErrorMessages :
          LET final == [ result EXCEPT
                           !.errors = Append(@, ValidationError(rowIndex, None,
                                                   "Parsing error: " \o m)),
                           !.isValid = FALSE ]
          IN  /\ result' = final
              /\ validation' = Resolved(final)
    /\ parser' = "error"
    /\ pc' = "settled"
    /\ UNCHANGED << entry, options, headerRow, delivered, headers, rowIndex >>
    /\ UNCHANGED converterVars
    /\ UNCHANGED extVars

(***************************************************************************)
(* validateCsvContent as a function of what the parser emits: the header   *)
(* (if any), the data rows, and the terminal event (None for 'end', the    *)
(* error message for 'error').                                             *)
(***************************************************************************)
RECURSIVE DataErrors(_, _, _, _)
DataErrors(opts, rows, columnCount, n) ==
    IF n = 0 THEN << >>
    ELSE DataErrors(opts, rows, columnCount, n - 1)
         \o RowErrors(opts, n, rows[n], columnCount)

PassResult(opts, hdr, rows, failure) ==
    LET hs == IF IsSome(hdr) THEN FilterNonEmpty(Get(hdr)) ELSE << >>
        errs == (IF IsSome(hdr) THEN HeaderErrors(opts, hs) ELSE << >>)
                \o DataErrors(opts, rows, Len(hs), Len(rows))
    IN  IF IsSome(failure)
        THEN [ isValid |-> FALSE,
               errors |-> Append(errs, ValidationError(Len(rows), None,
                                          "Parsing error: " \o Get(failure))),
               columnCount |-> Len(hs),
               rowCount |-> 0 ]
        ELSE [ isValid |-> Len(errs) = 0,
               errors |-> errs,
               columnCount |-> Len(hs),
               rowCount |-> Len(rows) ]

Next ==
    \/ ReadFileOk
    \/ ReadFileFail
    \/ OnHeader
    \/ OnData
    \/ OnEnd
    \/ OnError

Spec == Init /\ [][Next]_vars

(***************************************************************************)
(* csvToJson / csvStringToJson with options.validation.                    *)
(***************************************************************************)
\* err => `Row ${err.row}${err.column ? `, Column ${err.column}` : ''}: ${err.message}`
RenderError(err) ==
    "Row " \o ToString(err.row)
    \o (IF IsSome(err.column) /\ Truthy(Get(err.column))
        THEN ", Column " \o Get(err.column) ELSE "")
    \o ": " \o err.message

RenderErrors(errors) == [ i \in 1..Len(errors) |-> RenderError(errors[i]) ]

\* ValidationFailedMessage rendering the first error only.
ValidationFailedMessageFirstOnly(errors) ==
    "CSV validation failed:\n" \o RenderError(errors[1])

\* `CSV validation failed:\n${validationResult.errors.map(...).join('\n')}`
ValidationFailedMessage(errors) ==
    "CSV validation failed:\n" \o Join(RenderErrors(errors), "\n")

\* The message prefix of the catch block around the call's body.
CatchPrefix(e) ==
    IF e = "csvToJson" THEN "Failed to read or parse CSV file: "
    ELSE "Failed to parse CSV string: "

\* The message prefix of a failure of the conversion parse.
ParsePrefix(e) ==
    IF e = "csvToJson" THEN "Failed to parse CSV: "
    ELSE "Failed to parse CSV string: "

\* The continuation after `await validateCsvFile(...)` /
\* `await validateCsvContent(...)`.
AfterValidation ==
    /\ cpc = "validating"
    /\ validation.state # "pending"
    /\ IF validation.state = "rejected"
       THEN \* the await throws; the catch block wraps the message
            /\ conversion' = Rejected(CatchPrefix(entry) \o validation.message)
            /\ cpc' = "settled"
            /\ UNCHANGED parseStarted
       ELSE IF ~validation.value.isValid
       THEN \* throw new Error(`CSV validation failed: ...`), caught and wrapped
            /\ conversion' = Rejected(CatchPrefix(entry)
                                \o ValidationFailedMessage(validation.value.errors))
            /\ cpc' = "settled"
            /\ UNCHANGED parseStarted
       ELSE IF entry = "csvToJson"
       THEN \* await readFile(filePath, 'utf-8')
            /\ cpc' = "reading"
            /\ UNCHANGED << parseStarted, conversion >>
       ELSE \* parse(csvString, parseOptions, callback)
            /\ cpc' = "parsing"
            /\ parseStarted' = TRUE
            /\ UNCHANGED conversion
    /\ UNCHANGED << entry, options, pc, parser, headerRow, delivered, result,
                    headers, rowIndex, validation >>
    /\ UNCHANGED extVars

\* csvToJson: its own readFile resolves, and parse(...) is called.
ConvReadFileOk ==
    /\ cpc = "reading"
    /\ cpc' = "parsing"
    /\ parseStarted' = TRUE
    /\ UNCHANGED << entry, options, pc, parser, headerRow, delivered, result,
                    headers, rowIndex, validation, conversion >>
    /\ UNCHANGED extVars

\* csvToJson: its own readFile rejects.
ConvReadFileFail ==
    /\ cpc = "reading"
    /\ \E cause \in ReadErrorMessages :
          conversion' = Rejected(CatchPrefix(entry) \o cause)
    /\ cpc' = "settled"
    /\ UNCHANGED << entry, options, pc, parser, headerRow, delivered, result,
                    headers, rowIndex, validation, parseStarted >>
    /\ UNCHANGED extVars

\* The callback of the conversion parse: records, or an error.
ParseCallback ==
    /\ cpc = "parsing"
    /\ \/ conversion' = Resolved(delivered)
       \/ \E m \in ParseErrorMessages :
             conversion' = Rejected(ParsePrefix(entry) \o m)
    /\ cpc' = "settled"
    /\ UNCHANGED << entry, options, pc, parser, headerRow, delivered, result,
                    headers, rowIndex, validation, parseStarted >>
    /\ UNCHANGED extVars

NextConv ==
    \/ Next
    \/ AfterValidation
    \/ ConvReadFileOk
    \/ ConvReadFileFail
    \/ ParseCallback

SpecConv == InitConv /\ [][NextConv]_vars

(***************************************************************************)
(* csv-parse as a function of the content and of its options: lines are    *)
(* split at the delimiter, fields are trimmed with trim, empty lines are   *)
(* dropped with skip_empty_lines, the first record names the columns with  *)
(* columns: true, and (relax_column_count being false) a record whose      *)
(* field count differs from the first record's is an error that ends the   *)
(* parse.                                                                  *)
(***************************************************************************)
RECURSIVE Split(_, _)
Split(line, delimiter) ==
    IF line = << >> THEN << << >> >>
    ELSE LET rest == Split(Tail(line), delimiter)
         IN  IF Head(line) = delimiter
             THEN << << >> >> \o rest
             ELSE << << Head(line) >> \o rest[1] >> \o Tail(rest)

RECURSIVE LTrim(_)
LTrim(field) ==
    IF field # << >> /\ Head(field) = " " THEN LTrim(Tail(field)) ELSE field

RECURSIVE RTrim(_)
RTrim(field) ==
    IF field # << >> /\ field[Len(field)] = " "
    THEN RTrim(SubSeq(field, 1, Len(field) - 1))
    ELSE field

\* The string of a field.
FieldText(field, trim) == Join(IF trim THEN RTrim(LTrim(field)) ELSE field, "")

\* The fields of a line.
LineFields(line, cfg) ==
    LET fields == Split(line, cfg.delimiter)
    IN  [ i \in 1..Len(fields) |-> FieldText(fields[i], cfg.trim) ]

\* The number of leading records with as many fields as the first one.
RECURSIVE ConsistentPrefix(_, _)
ConsistentPrefix(recs, n) ==
    IF n < Len(recs) /\ Len(recs[n + 1]) = Len(recs[1])
    THEN ConsistentPrefix(recs, n + 1)
    ELSE n

\* header: the column names (with columns: true); rows: the field arrays
\* of the records emitted; failure: the error that ended the parse.
Tokenize(text, cfg) ==
    LET lines == IF cfg.skip_empty_lines
                 THEN SelectSeq(text, LAMBDA l : l # << >>)
                 ELSE text
        recs == [ i \in 1..Len(lines) |-> LineFields(lines[i], cfg) ]
        n == ConsistentPrefix(recs, 0)
        first == IF cfg.columns /\ n > 0 THEN 2 ELSE 1
    IN  [ header  |-> IF cfg.columns /\ n > 0 THEN Some(recs[1]) ELSE None,
          rows    |-> SubSeq(recs, first, n),
          failure |-> IF n < Len(recs)
                      THEN Some(CHOOSE m \in ParseErrorMessages : TRUE)
                      ELSE None ]

\* The records of a parse: objects with columns: true, arrays otherwise.
Records(tok) ==
    IF IsSome(tok.header)
    THEN [ i \in 1..Len(tok.rows) |-> MakeRecord(Get(tok.header), tok.rows[i]) ]
    ELSE tok.rows

\* The parser configuration of validateCsvContent.
ValidatorParseOptions ==
    [ delimiter |-> ",", columns |-> TRUE, skip_empty_lines |-> TRUE,
      trim |-> TRUE ]

\* parseOptions of csvStringToJson.
ParseOptions(o) ==
    [ delimiter        |-> IF IsSome(o.delimiter) /\ Truthy(Get(o.delimiter))
                           THEN Get(o.delimiter) ELSE ",",
      skip_empty_lines |-> o.skipEmptyLines # Some(FALSE),
      trim             |-> o.trimValues # Some(FALSE),
      columns          |-> IF o.headers = Some(FALSE) THEN FALSE ELSE TRUE ]

(***************************************************************************)
(* csvStringToJson(csvString, { ...convOptions, validation: options }) on  *)
(* a given content.  The awaited validateCsvContent pass is one step: its  *)
(* parser emits what Tokenize gives under ValidatorParseOptions.           *)
(***************************************************************************)
InitTok ==
    /\ entry = "csvStringToJson"
    /\ cpc = "validating"
    /\ InitValidation
    /\ content \in { Some(c) : c \in Contents }
    /\ convOptions \in CsvToJsonOptions
    /\ InitNoFile

\* await validateCsvContent(csvString, options.validation)
TokValidate ==
    /\ cpc = "validating"
    /\ pc = "parsing"
    /\ IsSome(content)
    /\ LET tok == Tokenize(Get(content), ValidatorParseOptions)
            rows == Records(tok)
            final == PassResult(options, tok.header, rows, tok.failure)
       IN  /\ headerRow' = tok.header
           /\ delivered' = rows
           /\ headers' = IF IsSome(tok.header)
                         THEN FilterNonEmpty(Get(tok.header)) ELSE << >>
           /\ rowIndex' = Len(rows)
           /\ parser' = IF IsSome(tok.failure) THEN "error" ELSE "end"
           /\ result' = final
           /\ validation' = Resolved(final)
    /\ pc' = "settled"
    /\ UNCHANGED << entry, options >>
    /\ UNCHANGED converterVars
    /\ UNCHANGED extVars

\* parse(csvString, parseOptions, callback) calls back; csvString is the
\* content the validator was given.
TokParseCallback ==
    /\ cpc = "parsing"
    /\ IsSome(content)
    /\ LET tok == Tokenize(Get(content), ParseOptions(convOptions))
       IN  conversion' = IF IsSome(tok.failure)
                         THEN Rejected(ParsePrefix(entry) \o Get(tok.failure))
                         ELSE Resolved(Records(tok))
    /\ cpc' = "settled"
    /\ UNCHANGED << entry, options, pc, parser, headerRow, delivered, result,
                    headers, rowIndex, validation, parseStarted >>
    /\ UNCHANGED extVars

NextTok ==
    \/ TokValidate
    \/ AfterValidation
    \/ TokParseCallback

SpecTok == InitTok /\ [][NextTok]_vars

(***************************************************************************)
(* csvToJson(filePath, { validation: options }) on a file another process  *)
(* may rewrite.  validateCsvFile reads the file, the validation pass runs  *)
(* on what it read, and csvToJson then reads the file again.               *)
(***************************************************************************)
InitFile ==
    /\ entry = "csvToJson"
    /\ cpc = "validating"
    /\ InitValidation
    /\ content = None
    /\ convOptions = DefaultCsvToJsonOptions
    /\ file \in { Some(c) : c \in Contents }
    /\ rewrites = 0
    /\ fileContent = None
    /\ calls = << >>

\* Another process writes a different content to the file.
FileRewrite ==
    /\ rewrites < MaxRewrites
    /\ IsSome(file)
    /\ \E c \in Contents \ { Get(file) } : file' = Some(c)
    /\ rewrites' = rewrites + 1
    /\ UNCHANGED << entry, options, pc, parser, headerRow, delivered, result,
                    headers, rowIndex, validation >>
    /\ UNCHANGED converterVars
    /\ UNCHANGED << tokVars, fileContent, callVars >>

\* validateCsvFile: const fileContent = await readFile(filePath, 'utf-8');
\* return validateCsvContent(fileContent, options)
FileValidatorRead ==
    /\ pc = "reading"
    /\ IsSome(file)
    /\ content' = file
    /\ pc' = "parsing"
    /\ parser' = "written"
    /\ UNCHANGED << entry, options, headerRow, delivered, result, headers,
                    rowIndex, validation, convOptions >>
    /\ UNCHANGED converterVars
    /\ UNCHANGED << fileVars, callVars >>

\* csvToJson: const fileContent = await readFile(filePath, 'utf-8'), and
\* parse(fileContent, parseOptions, callback) is called.
FileConverterRead ==
    /\ cpc = "reading"
    /\ IsSome(file)
    /\ fileContent' = file
    /\ cpc' = "parsing"
    /\ parseStarted' = TRUE
    /\ UNCHANGED << entry, options, pc, parser, headerRow, delivered, result,
                    headers, rowIndex, validation, conversion >>
    /\ UNCHANGED << tokVars, file, rewrites, callVars >>

\* parse(fileContent, parseOptions, callback) calls back.
FileParseCallback ==
    /\ cpc = "parsing"
    /\ IsSome(fileContent)
    /\ LET tok == Tokenize(Get(fileContent), ParseOptions(convOptions))
       IN  conversion' = IF IsSome(tok.failure)
                         THEN Rejected(ParsePrefix(entry) \o Get(tok.failure))
                         ELSE Resolved(Records(tok))
    /\ cpc' = "settled"
    /\ UNCHANGED << entry, options, pc, parser, headerRow, delivered, result,
                    headers, rowIndex, validation, parseStarted >>
    /\ UNCHANGED extVars

NextFile ==
    \/ FileRewrite
    \/ FileValidatorRead
    \/ ReadFileFail
    \/ TokValidate
    \/ AfterValidation
    \/ FileConverterRead
    \/ ConvReadFileFail
    \/ FileParseCallback

SpecFile == InitFile /\ [][NextFile]_vars

(***************************************************************************)
(* Two calls validateCsvContent(content, options) on the same content with *)
(* the same options, both started before either parser emits.  Each call   *)
(* has its own closure (result, headers, rowIndex), its own parser and its *)
(* own promise; the events of the two parsers interleave in any order.     *)
(***************************************************************************)
Callers == 1..2

\* The closure of a call after parser.write(content); parser.end().
NewCall ==
    [ parser |-> "written", result |-> NewValidationResult, headers |-> << >>,
      rowIndex |-> 0, validation |-> Pending ]

\* What each call's parser emits.
Emitted == Tokenize(Get(content), ValidatorParseOptions)

InitCalls ==
    /\ entry = "validateCsvContent"
    /\ cpc = "none"
    /\ InitValidation
    /\ content \in { Some(c) : c \in Contents }
    /\ convOptions = DefaultCsvToJsonOptions
    /\ file = None
    /\ rewrites = 0
    /\ fileContent = None
    /\ calls = [ i \in Callers |-> NewCall ]

\* What the actions on calls leave alone.
CallFrame ==
    /\ UNCHANGED << entry, options, pc, parser, headerRow, delivered, result,
                    headers, rowIndex, validation >>
    /\ UNCHANGED converterVars
    /\ UNCHANGED << tokVars, fileVars >>

\* parser.on('header', ...) of call i
CallOnHeader(i) ==
    /\ calls[i].parser = "written"
    /\ IsSome(Emitted.header)
    /\ LET h == Get(Emitted.header)
       IN  calls' = [ calls EXCEPT ![i] =
                        [ @ EXCEPT
                            !.parser = "header",
                            !.headers = FilterNonEmpty(h),
                            !.result = [ @ EXCEPT
                                 !.columnCount = Len(FilterNonEmpty(h)),
                                 !.errors = @ \o HeaderErrors(options,
                                                    FilterNonEmpty(h)) ] ] ]
    /\ CallFrame

\* CallOnData pushing onto an accumulator the calls share (the first call's).
CallOnDataShared(i) ==
    /\ calls[i].parser = "header"
    /\ calls[i].rowIndex < Len(Emitted.rows)
    /\ LET r == calls[i].rowIndex + 1
           row == Records(Emitted)[r]
           errs == RowErrors(options, r, row, calls[i].result.columnCount)
       IN  calls' = [ j \in Callers |->
                        [ calls[j] EXCEPT
                            !.rowIndex = IF j = i THEN r ELSE @,
                            !.result = IF j = 1
                                       THEN [ @ EXCEPT !.errors = @ \o errs ]
                                       ELSE @ ] ]
    /\ CallFrame

\* parser.on('data', ...) of call i
CallOnData(i) ==
    /\ calls[i].parser = "header"
    /\ calls[i].rowIndex < Len(Emitted.rows)
    /\ LET r == calls[i].rowIndex + 1
           row == Records(Emitted)[r]
       IN  calls' = [ calls EXCEPT ![i] =
                        [ @ EXCEPT
                            !.rowIndex = r,
                            !.result = [ @ EXCEPT
                                 !.errors = @ \o RowErrors(options, r, row,
                                                    calls[i].result.columnCount) ] ] ]
    /\ CallFrame

\* The parser of call i has emitted its header and its records.
CallDrained(i) ==
    /\ calls[i].parser = IF IsSome(Emitted.header) THEN "header" ELSE "written"
    /\ calls[i].rowIndex = Len(Emitted.rows)

\* parser.on('end', ...) of call i
CallOnEnd(i) ==
    /\ CallDrained(i)
    /\ Emitted.failure = None
    /\ LET final == [ calls[i].result EXCEPT
                        !.rowCount = calls[i].rowIndex,
                        !.isValid = (Len(calls[i].result.errors) = 0) ]
       IN  calls' = [ calls EXCEPT ![i] =
                        [ @ EXCEPT !.parser = "end", !.result = final,
                                   !.validation = Resolved(final) ] ]
    /\ CallFrame

\* parser.on('error', ...) of call i
CallOnError(i) ==
    /\ CallDrained(i)
    /\ IsSome(Emitted.failure)
    /\ LET final == [ calls[i].result EXCEPT
                        !.errors = Append(@, ValidationError(calls[i].rowIndex, None,
                                                "Parsing error: " \o Get(Emitted.failure))),
                        !.isValid = FALSE ]
       IN  calls' = [ calls EXCEPT ![i] =
                        [ @ EXCEPT !.parser = "error", !.result = final,
                                   !.validation = Resolved(final) ] ]
    /\ CallFrame

NextCalls ==
    \E i \in Callers :
        \/ CallOnHeader(i)
        \/ CallOnData(i)
        \/ CallOnEnd(i)
        \/ CallOnError(i)

SpecCalls == InitCalls /\ [][NextCalls]_vars

(***************************************************************************)
(* Fairness: a parser that was written and ended keeps emitting its        *)
(* events, and a pending readFile settles.  The handlers' effect on the    *)
(* promise does not depend on the options, so the fair specification       *)
(* draws them from a smaller set.                                          *)
(***************************************************************************)
FairOptions ==
    { o \in CsvValidationOptions :
        /\ o.maxRowLength = Some(1)
        /\ o.requiredColumns # None
        /\ o.columnTypes \in { << >>, [c \in {"age"} |-> "number"] } }

InitFair == Init /\ options \in FairOptions

FairSpec == InitFair /\ [][Next]_vars /\ WF_vars(Next)

(***************************************************************************)
(* Properties.                                                             *)
(***************************************************************************)
\* Whether validateCsvContent was called (directly or by validateCsvFile).
ContentCalled == parser # "idle"

\* C1: every call of validateCsvContent eventually settles by resolving
\* with a ValidationResult, whatever events the parser emits, and its
\* promise is never rejected.
C1_AlwaysResolves ==
    /\ [](ContentCalled => validation.state # "rejected")
    /\ (pc = "parsing") ~> (validation.state = "resolved")

\* A call that resolved although a row broke a rule and the parser failed.
C1_Witness ==
    /\ validation.state = "resolved"
    /\ parser = "error"
    /\ Len(delivered) > 0
    /\ Len(validation.value.errors) > 1

\* C2: in every ValidationResult returned, on the 'end' path and on the
\* 'error' path, isValid is true exactly when errors is empty.
C2_IsValidIffNoErrors ==
    validation.state = "resolved" =>
        (validation.value.isValid <=> Len(validation.value.errors) = 0)

\* validateCsvFile returned an invalid result on the 'end' path.
C2_Witness ==
    /\ entry = "validateCsvFile"
    /\ validation.state = "resolved"
    /\ parser = "end"
    /\ ~validation.value.isValid
    /\ Len(validation.value.errors) > 0

(***************************************************************************)
(* Helpers of the properties below: what a content holds, stated from the  *)
(* delivered header and rows, not from the handlers' computations.         *)
(***************************************************************************)
\* The names of the delivered header that are not empty.
HeaderNames ==
    IF IsSome(headerRow)
    THEN { Get(headerRow)[i] : i \in 1..Len(Get(headerRow)) } \ { "" }
    ELSE { }

\* The required names absent from the header, in requiredColumns order.
AbsentRequired ==
    IF IsSome(options.requiredColumns)
    THEN SelectSeq(Get(options.requiredColumns), LAMBDA n : n \notin HeaderNames)
    ELSE << >>

\* The errors the 'error' handler records.
IsParsingError(e) ==
    \E m \in ParseErrorMessages : e.message = "Parsing error: " \o m

\* The cells of the delivered rows: row index and position in the row.
Cells ==
    UNION { { << r, i >> : i \in 1..Len(delivered[r]) } : r \in 1..Len(delivered) }
CellColumn(c) == delivered[c[1]][c[2]].column
CellValue(c) == delivered[c[1]][c[2]].value
CellEmpty(c) == Trim(CellValue(c)) = ""
CellTyped(c) == CellColumn(c) \in DOMAIN options.columnTypes
CellType(c) == options.columnTypes[CellColumn(c)]

\* The type predicates as the specification's table states them.
TypePredicate(value, type) ==
    CASE type = "number"  -> ~NumberIsNaN(Trim(value)) /\ Trim(value) # ""
      [] type = "boolean" -> ToLowerCase(value) \in {"true", "false", "0", "1"}
      [] type = "date"    -> ~DateParseIsNaN(Trim(value))
      [] type = "string"  -> Trim(value) # ""

InvalidValueError(c) ==
    ValidationError(c[1], Some(CellColumn(c)),
        "Invalid " \o CellType(c) \o " value '" \o CellValue(c)
        \o "' in column '" \o CellColumn(c) \o "'")

EmptyValueError(c) ==
    ValidationError(c[1], Some(CellColumn(c)),
        "Empty value not allowed in column '" \o CellColumn(c) \o "'")

\* How often an error occurs in the accumulated errors.
Occurrences(e) ==
    Cardinality({ i \in 1..Len(result.errors) : result.errors[i] = e })

\* The number of populated (non-empty) fields of a delivered row.
Populated(r) == Cardinality({ i \in 1..Len(delivered[r]) : delivered[r][i].value # "" })

\* The renderings "Row <r>[, Column <c>]: <message>" of an error: the
\* column part is absent for an error without a column, present for an
\* error with a named column, and either for an empty-named column.
Renderings(e) ==
    LET plain == "Row " \o ToString(e.row) \o ": " \o e.message
        withColumn(c) ==
            "Row " \o ToString(e.row) \o ", Column " \o c \o ": " \o e.message
    IN  IF e.column = None THEN { plain }
        ELSE IF Get(e.column) # "" THEN { withColumn(Get(e.column)) }
        ELSE { plain, withColumn("") }

\* The newline-joined renderings of a sequence of errors, in its order.
RECURSIVE JoinedRenderings(_)
JoinedRenderings(errors) ==
    IF Len(errors) = 0 THEN { "" }
    ELSE IF Len(errors) = 1 THEN Renderings(errors[1])
    ELSE { first \o "\n" \o rest :
             first \in Renderings(errors[1]),
             rest \in JoinedRenderings(Tail(errors)) }

\* What precedes the renderings in the rejection message.
Preambles ==
    { "Failed to parse CSV string: CSV validation failed:\n",
      "Failed to read or parse CSV file: CSV validation failed:\n" }

\* The validator returned an invalid result and the converter went on.
ValidationFailed ==
    /\ cpc # "validating"
    /\ validation.state = "resolved"
    /\ ~validation.value.isValid

\* C3: when the validation result is invalid, csvStringToJson / csvToJson
\* rejects, never starts the conversion parse (no records), and the
\* rejection message carries the rendering of every error of the result,
\* newline-joined, in the order of result.errors.
C3_InvalidRejects ==
    ValidationFailed =>
        /\ conversion.state = "rejected"
        /\ ~parseStarted
        /\ \E pre \in Preambles, body \in JoinedRenderings(validation.value.errors) :
              conversion.message = pre \o body

\* A rejection for a result with a header error, and row errors with and
\* without a column.
C3_Witness ==
    /\ ValidationFailed
    /\ conversion.state = "rejected"
    /\ Len(validation.value.errors) >= 3
    /\ \E i, j \in 1..Len(validation.value.errors) :
          /\ validation.value.errors[i].row = 0
          /\ validation.value.errors[j].row > 0
          /\ validation.value.errors[j].column # None

\* C4: the header check records exactly one row-0 error "Missing required
\* columns: <names>" naming all and only the absent required names, in
\* requiredColumns order, when one is absent, and none otherwise.
C4_MissingColumnsOnce ==
    IsSome(headerRow) =>
        SelectSeq(result.errors, LAMBDA e : e.row = 0 /\ ~IsParsingError(e))
          = IF Len(AbsentRequired) > 0
            THEN << ValidationError(0, None,
                       "Missing required columns: " \o Join(AbsentRequired, ", ")) >>
            ELSE << >>

\* A settled pass over a header that lacks two of three required names.
C4_Witness ==
    /\ validation.state = "resolved"
    /\ parser = "end"
    /\ Len(AbsentRequired) = 2
    /\ Len(delivered) > 0

\* A content whose only defect is one typed value: a header of 3 named
\* columns, one fully populated row, no parse failure, no required column
\* absent, no maxRowLength below the row's length, one typed value failing.
OnlyDefectOneTypedValue ==
    /\ IsSome(headerRow)
    /\ parser # "error"
    /\ Len(Get(headerRow)) = 3
    /\ Cardinality(HeaderNames) = 3
    /\ Len(delivered) = 1
    /\ \A c \in Cells : ~CellEmpty(c)
    /\ Len(AbsentRequired) = 0
    /\ options.maxRowLength = None
    /\ Cardinality({ c \in Cells :
          CellTyped(c) /\ ~TypePredicate(CellValue(c), CellType(c)) }) = 1

\* C5: for every data row and every typed column whose trimmed value is
\* not empty, the error "Invalid <type> value '<value>' in column
\* '<column>'" is recorded (once) exactly when the value fails the
\* predicate of its type; a content whose only defect is one such value
\* has exactly one error.
C5_TypeErrors ==
    /\ \A c \in Cells :
          (CellTyped(c) /\ ~CellEmpty(c)) =>
              Occurrences(InvalidValueError(c))
                = IF TypePredicate(CellValue(c), CellType(c)) THEN 0 ELSE 1
    /\ OnlyDefectOneTypedValue => Len(result.errors) = 1

\* The pass over such a content has ended.
C5_Witness ==
    /\ OnlyDefectOneTypedValue
    /\ validation.state = "resolved"
    /\ parser = "end"
    /\ ~validation.value.isValid

\* allowEmptyValues is false or unset.
EmptyValuesForbidden == options.allowEmptyValues \in { None, Some(FALSE) }

\* C6: for every data row and every column of it, the error "Empty value
\* not allowed in column '<column>'" is recorded if and only if
\* allowEmptyValues is false or unset and the trimmed value is empty.
C6_EmptyValueErrors ==
    \A c \in Cells :
        Occurrences(EmptyValueError(c))
          = IF EmptyValuesForbidden /\ CellEmpty(c) THEN 1 ELSE 0

\* A whitespace-only value in the second row was reported, with
\* allowEmptyValues unset.
C6_Witness ==
    /\ options.allowEmptyValues = None
    /\ \E c \in Cells :
          /\ c[1] = 2
          /\ CellValue(c) = " "
          /\ Occurrences(EmptyValueError(c)) = 1

\* C7: with allowEmptyValues true, a content over a header of named
\* columns whose non-empty typed values all pass their predicates (no
\* required column absent, no maxRowLength) validates with isValid true
\* and no errors, however many of its values are empty.
C7_EmptyValuesAllowed ==
    ( /\ options.allowEmptyValues = Some(TRUE)
      /\ validation.state = "resolved"
      /\ parser = "end"
      /\ IsSome(headerRow)
      /\ Cardinality(HeaderNames) = Len(Get(headerRow))
      /\ Len(AbsentRequired) = 0
      /\ options.maxRowLength = None
      /\ \A c \in Cells :
            (CellTyped(c) /\ ~CellEmpty(c)) =>
                TypePredicate(CellValue(c), CellType(c)) )
    => ( validation.value.isValid /\ validation.value.errors = << >> )

\* C8: no (row, column) pair carries more than one error, and an empty
\* value never yields an "Invalid <type> value" error.
C8_SingleReport ==
    \A c \in Cells :
        /\ Cardinality({ i \in 1..Len(result.errors) :
                            /\ result.errors[i].row = c[1]
                            /\ result.errors[i].column = Some(CellColumn(c)) }) <= 1
        /\ (CellTyped(c) /\ CellEmpty(c)) => Occurrences(InvalidValueError(c)) = 0

\* The row-length error of row r for the bound n.
RowExceedsError(r, n) ==
    ValidationError(r, None, "Row exceeds maximum length of " \o ToString(n))

\* C9: for every data row, the error "Row exceeds maximum length of <N>"
\* is recorded if and only if maxRowLength is set to N (0 included) and
\* the row has more than N populated fields.
C9_MaxRowLength ==
    \A r \in 1..Len(delivered) :
        IF IsSome(options.maxRowLength)
        THEN Occurrences(RowExceedsError(r, Get(options.maxRowLength)))
               = IF Populated(r) > Get(options.maxRowLength) THEN 1 ELSE 0
        ELSE \A e \in { result.errors[i] : i \in 1..Len(result.errors) } :
                e.row = r => \A n \in 0..Len(delivered[r]) : e # RowExceedsError(r, n)

\* C10: in every ValidationResult returned, on the 'end' path and on the
\* 'error' path, rowCount is the number of data rows delivered and
\* columnCount the number of non-empty header names.
C10_Counts ==
    validation.state = "resolved" =>
        /\ validation.value.rowCount = Len(delivered)
        /\ validation.value.columnCount = Cardinality(HeaderNames)

\* The rejection messages of a failed validation, for the errors given.
ValidationFailedMessages(errors) ==
    { pre \o body : pre \in Preambles, body \in JoinedRenderings(errors) }

\* C11: a tokenizer failure during validation is a parse-level failure
\* distinct from validation errors: it is never an entry of
\* ValidationResult.errors, and through the converter it is never reported
\* as a "CSV validation failed" error.
C11_ParseFailureDistinct ==
    /\ validation.state = "resolved" =>
          \A i \in 1..Len(validation.value.errors) :
              ~IsParsingError(validation.value.errors[i])
    /\ (parser = "error" /\ conversion.state = "rejected") =>
          conversion.message \notin ValidationFailedMessages(validation.value.errors)

\* C12: an error with row 0 is the header-level error (missing required
\* columns), and every other error, the parser's failure on a data row
\* included, carries a row index between 1 and the number of rows
\* delivered.
C12_RowIndices ==
    \A i \in 1..Len(result.errors) :
        LET e == result.errors[i]
        IN  IF e.row = 0
            THEN /\ Len(AbsentRequired) > 0
                 /\ e = ValidationError(0, None,
                           "Missing required columns: " \o Join(AbsentRequired, ", "))
            ELSE 1 <= e.row /\ e.row <= Len(delivered)

\* The terminal event of the pass, as PassResult takes it.
ParseFailure ==
    IF parser = "error" THEN Some(CHOOSE m \in ParseErrorMessages : TRUE) ELSE None

\* validateCsvFile's readFile failed.
ReadFailed == pc = "settled" /\ parser = "idle"

\* C15: validateCsvFile rejects with "Failed to read CSV file: <cause>",
\* producing no result, exactly when reading the file fails; when the read
\* succeeds it settles as validateCsvContent does on the content read,
\* with an equal result.
C15_FileAsContent ==
    entry = "validateCsvFile" =>
        /\ (validation.state = "rejected") <=> ReadFailed
        /\ validation.state = "rejected" =>
              \E cause \in ReadErrorMessages :
                  validation = Rejected("Failed to read CSV file: " \o cause)
        /\ (pc = "settled" /\ ~ReadFailed) =>
              validation = Resolved(PassResult(options, headerRow, delivered,
                                               ParseFailure))

\* validateCsvFile resolved on the 'error' path with rule violations, and
\* (in another run) rejected on a failed read.
C15_Witness ==
    /\ entry = "validateCsvFile"
    /\ validation.state = "resolved"
    /\ parser = "error"
    /\ Len(delivered) > 1
    /\ Len(validation.value.errors) > 2

\* The row numbers along a sequence of errors never decrease.
OrderedByRow(errors) ==
    \A i \in 1..(Len(errors) - 1) : errors[i].row <= errors[i + 1].row

\* One sequence extends the other at its end.
IsPrefix(s, t) ==
    /\ Len(s) <= Len(t)
    /\ \A i \in 1..Len(s) : s[i] = t[i]

\* C17: at every point of a pass the errors are only appended to, and the
\* row numbers along the sequence never decrease (the row-0 error first,
\* a final "Parsing error" last).
C17_ErrorsOrdered ==
    /\ [](OrderedByRow(result.errors))
    /\ [][IsPrefix(result.errors, result.errors')]_vars

\* A pass that recorded the row-0 error, errors of the first and of the
\* second row, and the parser's error.
C17_Witness ==
    /\ parser = "error"
    /\ Len(result.errors) >= 4
    /\ result.errors[1].row = 0
    /\ \E i, j \in 1..Len(result.errors) :
          result.errors[i].row = 1 /\ result.errors[j].row = 2
               /\ ~IsParsingError(result.errors[j])
    /\ IsParsingError(result.errors[Len(result.errors)])

\* C13: when csvStringToJson is called with validation options and
\* validation passes, the records it returns are exactly the rows the
\* validator checked, one record per validated data row in file order,
\* for every choice of the converter's delimiter, trimValues,
\* skipEmptyLines and headers options.
C13_RecordsAreValidatedRows ==
    (entry = "csvStringToJson" /\ conversion.state = "resolved") =>
        conversion.value = delivered

\* C16: the records csvToJson returns with validation options come from
\* the file content that was validated, even when another process rewrites
\* the file between the validator's read and the converter's own read.
C16_ConvertsValidatedContent ==
    (entry = "csvToJson" /\ conversion.state = "resolved") =>
        /\ fileContent = content
        /\ validation.state = "resolved" /\ validation.value.isValid

\* The result of one call alone on the content.
SingleCallResult ==
    PassResult(options, Emitted.header, Records(Emitted), Emitted.failure)

\* C14: validation calls share no state: two calls on the same content
\* with the same options, their parser events interleaved in any order,
\* yield equal results (isValid, rowCount, columnCount, errors in the same
\* order), the result of a call alone, and at no point does a call's
\* accumulator hold an error of the other call.
C14_CallsIndependent ==
    /\ \A i \in Callers :
          /\ IsPrefix(calls[i].result.errors, SingleCallResult.errors)
          /\ calls[i].validation.state = "resolved" =>
                calls[i].validation.value = SingleCallResult
    /\ (\A i \in Callers : calls[i].validation.state = "resolved") =>
          calls[1].validation.value = calls[2].validation.value

\* Both calls resolved with errors of two rows.
C14_Witness ==
    /\ \A i \in Callers :
          /\ calls[i].validation.state = "resolved"
          /\ calls[i].rowIndex = 2
          /\ \E j, k \in 1..Len(calls[i].validation.value.errors) :
                /\ calls[i].validation.value.errors[j].row = 1
                /\ calls[i].validation.value.errors[k].row = 2

====
